---------------------------- MODULE Spec2Model ----------------------------
(***************************************************************************)
(* A model of clean_history.py, the zsh history cleaner.                   *)
(*                                                                         *)
(* Files are sequences of bytes, one-character strings; BadByte stands for *)
(* a byte that is not valid UTF-8.  Text is a sequence of characters.  A   *)
(* Python dict is a sequence of <<key, value>> pairs in insertion order, a *)
(* Python set is a set, a float is a pair <<numerator, denominator>>.      *)
(***************************************************************************)
EXTENDS Integers, Sequences, FiniteSets, TLC

VARIABLES
    pc,               \* position of main()
    args,             \* the parsed command line (settings and flags)
    hist,             \* content of HISTORY_FILE, a byte sequence
    hist0,            \* content of HISTORY_FILE when the run started
    exits,            \* EXIT_FILE: [exists, data], data a byte sequence
    backup,           \* HISTORY_FILE + BACKUP_SUFFIX: [exists, data]
    exit_codes,       \* main: exit_codes
    all_lines,        \* main: all_lines
    cmd_to_lines,     \* main: cmd_to_lines
    seen_commands,    \* main: seen_commands
    successful_cmds,  \* main: successful_cmds
    failed_cmds,      \* main: failed_cmds
    duplicate_indices,\* _identify_removals: duplicate_indices
    failed_removals,  \* _identify_removals: failed_removals
    rare_removals,    \* _identify_removals: rare_removals
    lines_to_remove,  \* main: lines_to_remove
    removal_reasons,  \* main: _removal_reasons
    widx,             \* main: idx of the write loop
    opened,           \* whether HISTORY_FILE was opened for writing in this run
    out,              \* what main printed
    runs,             \* _removal_reasons of each earlier run of main on these files
    sim_args,         \* a pair of strings given to similarity() on its own
    sim_calls         \* the calls made with them: <<a, b, similarity(a, b)>>

vars == <<pc, args, hist, hist0, exits, backup, exit_codes, all_lines,
          cmd_to_lines, seen_commands, successful_cmds, failed_cmds,
          duplicate_indices, failed_removals, rare_removals,
          lines_to_remove, removal_reasons, widx, opened, out, runs,
          sim_args, sim_calls>>

similarity_calls == <<sim_args, sim_calls>>

-----------------------------------------------------------------------------
(* Text and bytes *)

NoFile == [exists |-> FALSE, data |-> <<>>]
File(bytes) == [exists |-> TRUE, data |-> bytes]
BadByte == "xFF"
NL == "\n"
CR == "\r"
Digits == {"0", "1", "2", "3", "4", "5", "6", "7", "8", "9"}
Whitespace == {" ", "\t", "\n", "\r", "\f"}

DigitValue(c) ==
    CASE c = "0" -> 0 [] c = "1" -> 1 [] c = "2" -> 2 [] c = "3" -> 3
      [] c = "4" -> 4 [] c = "5" -> 5 [] c = "6" -> 6 [] c = "7" -> 7
      [] c = "8" -> 8 [] c = "9" -> 9

Min(a, b) == IF a <= b THEN a ELSE b

RECURSIVE Concat(_)
Concat(ss) == IF ss = <<>> THEN <<>> ELSE Head(ss) \o Concat(Tail(ss))

(* open(encoding="utf-8", errors="ignore"): bytes that do not decode are   *)
(* dropped.                                                                *)
RECURSIVE Decode(_)
Decode(bytes) ==
    IF bytes = <<>> THEN <<>>
    ELSE IF Head(bytes) = BadByte THEN Decode(Tail(bytes))
    ELSE <<Head(bytes)>> \o Decode(Tail(bytes))

(* open(newline=None): on input "\r\n" and "\r" become "\n".               *)
RECURSIVE UniversalNewlines(_)
UniversalNewlines(text) ==
    IF text = <<>> THEN <<>>
    ELSE IF Head(text) = CR
         THEN IF Len(text) >= 2 /\ text[2] = NL
              THEN <<NL>> \o UniversalNewlines(Tail(Tail(text)))
              ELSE <<NL>> \o UniversalNewlines(Tail(text))
    ELSE <<Head(text)>> \o UniversalNewlines(Tail(text))

(* Iterating a text file: the lines, each with its line end if it has one. *)
RECURSIVE SplitKeepEnds(_, _)
SplitKeepEnds(text, cur) ==
    IF text = <<>> THEN (IF cur = <<>> THEN <<>> ELSE <<cur>>)
    ELSE IF Head(text) = NL
         THEN <<Append(cur, NL)>> \o SplitKeepEnds(Tail(text), <<>>)
    ELSE SplitKeepEnds(Tail(text), Append(cur, Head(text)))

ReadLines(bytes) == SplitKeepEnds(UniversalNewlines(Decode(bytes)), <<>>)

(* str.rstrip("\n") *)
RECURSIVE RStripNL(_)
RStripNL(s) ==
    IF s # <<>> /\ s[Len(s)] = NL THEN RStripNL(SubSeq(s, 1, Len(s) - 1)) ELSE s

(* str.strip() *)
RECURSIVE LStrip(_)
LStrip(s) == IF s # <<>> /\ Head(s) \in Whitespace THEN LStrip(Tail(s)) ELSE s

RECURSIVE RStrip(_)
RStrip(s) ==
    IF s # <<>> /\ s[Len(s)] \in Whitespace
    THEN RStrip(SubSeq(s, 1, Len(s) - 1)) ELSE s

Strip(s) == LStrip(RStrip(s))

(* open("w", encoding="utf-8"): a character is written as itself.          *)
Encode(text) == text

(* str.startswith *)
StartsWith(s, p) == Len(p) <= Len(s) /\ SubSeq(s, 1, Len(p)) = p

(* The number of leading digits of s. *)
RECURSIVE DigitRun(_)
DigitRun(s) ==
    IF s # <<>> /\ Head(s) \in Digits THEN 1 + DigitRun(Tail(s)) ELSE 0

(* The index of the first c in s, 0 when there is none. *)
RECURSIVE Find(_, _)
Find(s, c) ==
    IF s = <<>> THEN 0
    ELSE IF Head(s) = c THEN 1
    ELSE LET r == Find(Tail(s), c) IN IF r = 0 THEN 0 ELSE r + 1

-----------------------------------------------------------------------------
(* Python dicts in insertion order *)

Keys(d) == [i \in 1..Len(d) |-> d[i][1]]
KeySet(d) == {d[i][1] : i \in 1..Len(d)}
Has(d, k) == \E i \in 1..Len(d) : d[i][1] = k
Get(d, k) == d[CHOOSE i \in 1..Len(d) : d[i][1] = k][2]
GetOr(d, k, default) == IF Has(d, k) THEN Get(d, k) ELSE default
Put(d, k, v) ==
    IF Has(d, k)
    THEN [i \in 1..Len(d) |-> IF d[i][1] = k THEN <<k, v>> ELSE d[i]]
    ELSE Append(d, <<k, v>>)

(* dict.update / Counter.update(Counter): Counter adds the counts. *)
RECURSIVE CounterUpdate(_, _)
CounterUpdate(d, e) ==
    IF e = <<>> THEN d
    ELSE CounterUpdate(Put(d, e[1][1], GetOr(d, e[1][1], 0) + e[1][2]), Tail(e))

(* dict.update on a mapping from line index to reason: the argument wins.  *)
MapUpdate(f, g) ==
    [i \in DOMAIN f \cup DOMAIN g |-> IF i \in DOMAIN g THEN g[i] ELSE f[i]]

EmptyMap == [i \in {} |-> <<>>]

SeqToSet(s) == {s[i] : i \in 1..Len(s)}

-----------------------------------------------------------------------------
(* Pure functions of clean_history.py *)

(* int(text): surrounding whitespace, an optional sign, decimal digits;    *)
(* <<value>>, or <<>> where int raises ValueError.                         *)
RECURSIVE DecimalValue(_, _)
DecimalValue(s, acc) ==
    IF s = <<>> THEN acc ELSE DecimalValue(Tail(s), 10 * acc + DigitValue(Head(s)))

IntParse(text) ==
    LET s == Strip(text)
        signed == s # <<>> /\ Head(s) \in {"+", "-"}
        body == IF signed THEN Tail(s) ELSE s
    IN  IF body = <<>> \/ DigitRun(body) # Len(body) THEN <<>>
        ELSE IF signed /\ Head(s) = "-" THEN <<0 - DecimalValue(body, 0)>>
        ELSE <<DecimalValue(body, 0)>>

(* The body of the loop that keeps the exit code a timestamp already has *)
LoadExitLine_first(exit_codes_, raw_line) ==
    LET line == Strip(raw_line)
        colon == Find(line, ":")
    IN  IF colon = 0 THEN exit_codes_
        ELSE LET timestamp == SubSeq(line, 1, colon - 1)
                 exit_code == IntParse(SubSeq(line, colon + 1, Len(line)))
             IN  IF exit_code = <<>> \/ Has(exit_codes_, timestamp) THEN exit_codes_
                 ELSE Put(exit_codes_, timestamp, exit_code[1])

(* The body of the loop of load_exit_codes for one raw line. *)
LoadExitLine(exit_codes_, raw_line) ==
    LET line == Strip(raw_line)
        colon == Find(line, ":")
    IN  IF colon = 0 THEN exit_codes_
        ELSE LET timestamp == SubSeq(line, 1, colon - 1)
                 exit_code == IntParse(SubSeq(line, colon + 1, Len(line)))
             IN  IF exit_code = <<>> THEN exit_codes_
                 ELSE Put(exit_codes_, timestamp, exit_code[1])

RECURSIVE LoadExitLines(_, _)
LoadExitLines(exit_codes_, raw_lines) ==
    IF raw_lines = <<>> THEN exit_codes_
    ELSE LoadExitLines(LoadExitLine(exit_codes_, Head(raw_lines)), Tail(raw_lines))

load_exit_codes(exit_file) ==
    IF ~exit_file.exists THEN <<>>
    ELSE LoadExitLines(<<>>, ReadLines(exit_file.data))

(* re.match(r": (\d+):\d+;(.+)", line); "." matches all but a newline.     *)
(* (None, None) is the record with matched FALSE.                          *)
parse_history_line(line) ==
    LET d1 == IF Len(line) >= 2 THEN DigitRun(SubSeq(line, 3, Len(line))) ELSE 0
        p1 == 3 + d1                       \* position of the first ":" after the digits
        d2 == IF Len(line) >= p1 THEN DigitRun(SubSeq(line, p1 + 1, Len(line))) ELSE 0
        p2 == p1 + 1 + d2                  \* position of ";"
        rest == SubSeq(line, p2 + 1, Len(line))
        nl == Find(rest, NL)
        command == IF nl = 0 THEN rest ELSE SubSeq(rest, 1, nl - 1)
        matched == /\ Len(line) >= 2 /\ line[1] = ":" /\ line[2] = " "
                   /\ d1 >= 1 /\ Len(line) >= p1 /\ line[p1] = ":"
                   /\ d2 >= 1 /\ Len(line) >= p2 /\ line[p2] = ";"
                   /\ command # <<>>
    IN  IF matched
        THEN [matched |-> TRUE, timestamp |-> SubSeq(line, 3, p1 - 1),
              command |-> Strip(command)]
        ELSE [matched |-> FALSE, timestamp |-> <<>>, command |-> <<>>]

(* SequenceMatcher.find_longest_match without junk: the longest block     *)
(* a[i..i+k) = b[j..j+k) inside a[alo..ahi), b[blo..bhi), the one starting *)
(* earliest in a and, of those, earliest in b.  Indices are 1-based here.  *)
RECURSIVE MatchLen(_, _, _, _, _, _)
MatchLen(a, b, i, j, ahi, bhi) ==
    IF i < ahi /\ j < bhi /\ a[i] = b[j]
    THEN 1 + MatchLen(a, b, i + 1, j + 1, ahi, bhi) ELSE 0

find_longest_match(a, b, alo, ahi, blo, bhi) ==
    LET starts == (alo..(ahi - 1)) \X (blo..(bhi - 1))
        len == [p \in starts |-> MatchLen(a, b, p[1], p[2], ahi, bhi)]
        longest == {p \in starts : len[p] > 0 /\ \A r \in starts : len[r] <= len[p]}
    IN  IF longest = {} THEN <<alo, blo, 0>>
        ELSE LET p == CHOOSE q \in longest :
                        \A r \in longest :
                            q[1] < r[1] \/ (q[1] = r[1] /\ q[2] <= r[2])
             IN  <<p[1], p[2], len[p]>>

(* SequenceMatcher.get_matching_blocks, summed: the number of matched     *)
(* characters.                                                             *)
RECURSIVE Matches(_, _, _, _, _, _)
Matches(a, b, alo, ahi, blo, bhi) ==
    LET m == find_longest_match(a, b, alo, ahi, blo, bhi) IN
    IF m[3] = 0 THEN 0
    ELSE m[3] + Matches(a, b, alo, m[1], blo, m[2])
              + Matches(a, b, m[1] + m[3], ahi, m[2] + m[3], bhi)

(* SequenceMatcher(None, a, b).ratio() = 2.0 * matches / length, or 1.0    *)
(* when both are empty; the ratio as <<numerator, denominator>>.           *)
similarity(a, b) ==
    IF Len(a) + Len(b) = 0 THEN <<1, 1>>
    ELSE <<2 * Matches(a, b, 1, Len(a) + 1, 1, Len(b) + 1), Len(a) + Len(b)>>

(* Comparisons of floats given as <<numerator, denominator>>. *)
Leq(x, y) == x[1] * y[2] <= y[1] * x[2]
Less(x, y) == x[1] * y[2] < y[1] * x[2]
One == <<1, 1>>

(* cmd.split()[0] if cmd.split() else cmd *)
get_base_command(cmd) ==
    LET s == LStrip(cmd)
        ws == {i \in 1..Len(s) : s[i] \in Whitespace}
        stop == IF ws = {} THEN Len(s) + 1
                ELSE CHOOSE i \in ws : \A j \in ws : i <= j
    IN  IF s = <<>> THEN cmd ELSE SubSeq(s, 1, stop - 1)

(* Removal reasons: the f-strings of the strategies as <<text, command>>.  *)
Duplicate == <<"Duplicate", <<>>>>
FailedPrefix(cmd) == <<"Failed prefix of", cmd>>
FailedSimilar(cmd) == <<"Failed similar to", cmd>>
RareVariant(cmd) == <<"Rare variant of", cmd>>

(* find_duplicate_indices that marks the last index only *)
find_duplicate_indices_last(cmd_to_lines_, seen_commands_) ==
    UNION { IF Len(cmd_to_lines_[n][2]) > 1
            THEN {cmd_to_lines_[n][2][Len(cmd_to_lines_[n][2])]}
            ELSE {} : n \in 1..Len(cmd_to_lines_) }

(* find_duplicate_indices without the test idx != first_idx *)
find_duplicate_indices_all(cmd_to_lines_, seen_commands_) ==
    UNION { IF Len(cmd_to_lines_[n][2]) > 1
            THEN SeqToSet(cmd_to_lines_[n][2])
            ELSE {} : n \in 1..Len(cmd_to_lines_) }

find_duplicate_indices(cmd_to_lines_, seen_commands_) ==
    UNION { IF Len(cmd_to_lines_[n][2]) > 1
            THEN {idx \in SeqToSet(cmd_to_lines_[n][2]) :
                     idx # Get(seen_commands_, cmd_to_lines_[n][1])}
            ELSE {} : n \in 1..Len(cmd_to_lines_) }

(* The body of the loop with exit_codes.get(timestamp, 0): a line with no  *)
(* exit code counts as successful.                                         *)
ParseLine_default(st, codes, idx, raw_line) ==
    LET line == RStripNL(raw_line)
        rec == parse_history_line(line)
        command == rec.command
        timestamp == rec.timestamp
        known == Has(codes, timestamp)
        exit_code == GetOr(codes, timestamp, 0)
    IN  IF command # <<>> /\ timestamp # <<>>
        THEN [all_lines |-> Append(st.all_lines, line),
              cmd_to_lines |->
                  Put(st.cmd_to_lines, command,
                      Append(GetOr(st.cmd_to_lines, command, <<>>), idx)),
              seen_commands |->
                  IF Has(st.seen_commands, command) THEN st.seen_commands
                  ELSE Put(st.seen_commands, command, idx),
              successful_cmds |->
                  IF exit_code = 0
                  THEN Put(st.successful_cmds, command,
                           GetOr(st.successful_cmds, command, 0) + 1)
                  ELSE st.successful_cmds,
              failed_cmds |->
                  IF known /\ exit_code # 0
                  THEN Put(st.failed_cmds, command,
                           GetOr(st.failed_cmds, command, 0) + 1)
                  ELSE st.failed_cmds]
        ELSE [st EXCEPT !.all_lines = Append(st.all_lines, line)]

(* The body of the loop of _parse_history_file for line idx (0-based).     *)
ParseLine(st, codes, idx, raw_line) ==
    LET line == RStripNL(raw_line)
        rec == parse_history_line(line)
        command == rec.command
        timestamp == rec.timestamp
        known == Has(codes, timestamp)
        exit_code == GetOr(codes, timestamp, 0)
    IN  IF command # <<>> /\ timestamp # <<>>
        THEN [all_lines |-> Append(st.all_lines, line),
              cmd_to_lines |->
                  Put(st.cmd_to_lines, command,
                      Append(GetOr(st.cmd_to_lines, command, <<>>), idx)),
              seen_commands |->
                  IF Has(st.seen_commands, command) THEN st.seen_commands
                  ELSE Put(st.seen_commands, command, idx),
              successful_cmds |->
                  IF known /\ exit_code = 0
                  THEN Put(st.successful_cmds, command,
                           GetOr(st.successful_cmds, command, 0) + 1)
                  ELSE st.successful_cmds,
              failed_cmds |->
                  IF known /\ exit_code # 0
                  THEN Put(st.failed_cmds, command,
                           GetOr(st.failed_cmds, command, 0) + 1)
                  ELSE st.failed_cmds]
        ELSE [st EXCEPT !.all_lines = Append(st.all_lines, line)]

RECURSIVE ParseLines(_, _, _, _)
ParseLines(st, codes, idx, raw_lines) ==
    IF raw_lines = <<>> THEN st
    ELSE ParseLines(ParseLine(st, codes, idx, Head(raw_lines)), codes,
                    idx + 1, Tail(raw_lines))

_parse_history_file(codes, history) ==
    ParseLines([all_lines |-> <<>>, cmd_to_lines |-> <<>>,
                seen_commands |-> <<>>, successful_cmds |-> <<>>,
                failed_cmds |-> <<>>],
               codes, 0, ReadLines(history))

(* The prefix test of _remove_failed_similar_commands. *)
PrefixRule(failed_cmd, fail_count, success_cmd, success_count) ==
    /\ StartsWith(success_cmd, failed_cmd)
    /\ success_cmd # failed_cmd
    /\ Len(success_cmd) > Len(failed_cmd)
    /\ success_count > fail_count

(* The similarity test with sim <= 1.0 *)
SimilarRule_inclusive(failed_cmd, fail_count, success_cmd, success_count, threshold) ==
    LET sim == similarity(failed_cmd, success_cmd)
    IN  Leq(threshold, sim) /\ Leq(sim, One) /\ success_count > fail_count

(* The similarity test of _remove_failed_similar_commands. *)
SimilarRule(failed_cmd, fail_count, success_cmd, success_count, threshold) ==
    LET sim == similarity(failed_cmd, success_cmd)
    IN  Leq(threshold, sim) /\ Less(sim, One) /\ success_count > fail_count

(* The inner loop with the break of the prefix test outside its if: the   *)
(* loop ends at the first candidate with the same base command.            *)
RECURSIVE ScanSuccessful_break(_, _, _, _)
ScanSuccessful_break(failed_cmd, fail_count, candidates, threshold) ==
    IF candidates = <<>> THEN <<>>
    ELSE IF get_base_command(candidates[1][1]) # get_base_command(failed_cmd)
    THEN ScanSuccessful_break(failed_cmd, fail_count, Tail(candidates), threshold)
    ELSE IF PrefixRule(failed_cmd, fail_count, candidates[1][1], candidates[1][2])
    THEN <<FailedPrefix(candidates[1][1])>>
    ELSE <<>>

(* The inner loop with no break: the last candidate that passes a test     *)
(* gives the reason.                                                       *)
RECURSIVE ScanSuccessful_last(_, _, _, _)
ScanSuccessful_last(failed_cmd, fail_count, candidates, threshold) ==
    IF candidates = <<>> THEN <<>>
    ELSE LET later == ScanSuccessful_last(failed_cmd, fail_count,
                                          Tail(candidates), threshold)
         IN  IF later # <<>> THEN later
             ELSE IF get_base_command(candidates[1][1]) # get_base_command(failed_cmd)
             THEN <<>>
             ELSE IF PrefixRule(failed_cmd, fail_count, candidates[1][1],
                                candidates[1][2])
             THEN <<FailedPrefix(candidates[1][1])>>
             ELSE IF SimilarRule(failed_cmd, fail_count, candidates[1][1],
                                 candidates[1][2], threshold)
             THEN <<FailedSimilar(candidates[1][1])>>
             ELSE <<>>

(* The inner loop of _remove_failed_similar_commands: <<reason>> of the    *)
(* candidate the loop breaks at, <<>> when it runs to its end.             *)
RECURSIVE ScanSuccessful(_, _, _, _)
ScanSuccessful(failed_cmd, fail_count, candidates, threshold) ==
    IF candidates = <<>> THEN <<>>
    ELSE LET success_cmd == candidates[1][1]
             success_count == candidates[1][2]
         IN  IF get_base_command(success_cmd) # get_base_command(failed_cmd)
             THEN ScanSuccessful(failed_cmd, fail_count, Tail(candidates), threshold)
             ELSE IF PrefixRule(failed_cmd, fail_count, success_cmd, success_count)
             THEN <<FailedPrefix(success_cmd)>>
             ELSE IF SimilarRule(failed_cmd, fail_count, success_cmd,
                                 success_count, threshold)
             THEN <<FailedSimilar(success_cmd)>>
             ELSE ScanSuccessful(failed_cmd, fail_count, Tail(candidates), threshold)

(* cmd_data.cmd_to_lines[cmd] of a defaultdict(list) *)
LinesOf(cmd_to_lines_, cmd) == SeqToSet(GetOr(cmd_to_lines_, cmd, <<>>))

RECURSIVE FailedLoop(_, _, _, _)
FailedLoop(acc, todo, cmd_data, threshold) ==
    IF todo = <<>> THEN acc
    ELSE LET failed_cmd == todo[1][1]
             hit == ScanSuccessful(failed_cmd, todo[1][2],
                                   cmd_data.successful_cmds, threshold)
             marked == LinesOf(cmd_data.cmd_to_lines, failed_cmd)
         IN  FailedLoop(
                 IF hit = <<>> THEN acc
                 ELSE [lines_to_remove |-> acc.lines_to_remove \cup marked,
                       removal_reasons |->
                           MapUpdate(acc.removal_reasons,
                                     [i \in marked |-> hit[1]])],
                 Tail(todo), cmd_data, threshold)

_remove_failed_similar_commands(cmd_data, similarity_threshold) ==
    FailedLoop([lines_to_remove |-> {}, removal_reasons |-> EmptyMap],
               cmd_data.failed_cmds, cmd_data, similarity_threshold)

(* The inner loop with common_count >= rare_count * 3 *)
RECURSIVE ScanCommon_geq(_, _, _, _)
ScanCommon_geq(rare_cmd, rare_count, candidates, threshold) ==
    IF candidates = <<>> THEN <<>>
    ELSE IF /\ candidates[1][2] >= rare_count * 3
            /\ get_base_command(candidates[1][1]) = get_base_command(rare_cmd)
            /\ Leq(threshold, similarity(rare_cmd, candidates[1][1]))
    THEN <<candidates[1][1]>>
    ELSE ScanCommon_geq(rare_cmd, rare_count, Tail(candidates), threshold)

(* The inner loop of _remove_rare_variants: <<common_cmd>> of the candidate *)
(* the loop breaks at, <<>> when it runs to its end.                        *)
RECURSIVE ScanCommon(_, _, _, _)
ScanCommon(rare_cmd, rare_count, candidates, threshold) ==
    IF candidates = <<>> THEN <<>>
    ELSE LET common_cmd == candidates[1][1]
             common_count == candidates[1][2]
         IN  IF /\ common_count > rare_count * 3
                /\ get_base_command(common_cmd) = get_base_command(rare_cmd)
                /\ Leq(threshold, similarity(rare_cmd, common_cmd))
             THEN <<common_cmd>>
             ELSE ScanCommon(rare_cmd, rare_count, Tail(candidates), threshold)

RECURSIVE RareLoop(_, _, _, _, _, _)
RareLoop(acc, todo, all_cmds, cmd_data, settings, existing_removals) ==
    IF todo = <<>> THEN acc
    ELSE LET rare_cmd == todo[1][1]
             rare_count == todo[1][2]
             hit == IF rare_count <= settings.rare_threshold
                    THEN ScanCommon(rare_cmd, rare_count, all_cmds,
                                    settings.similarity_threshold)
                    ELSE <<>>
             marked == LinesOf(cmd_data.cmd_to_lines, rare_cmd) \ existing_removals
         IN  RareLoop(
                 IF hit = <<>> THEN acc
                 ELSE [lines_to_remove |-> acc.lines_to_remove \cup marked,
                       removal_reasons |->
                           MapUpdate(acc.removal_reasons,
                                     [i \in marked |-> RareVariant(hit[1])])],
                 Tail(todo), all_cmds, cmd_data, settings, existing_removals)

AllCmds(cmd_data) ==
    CounterUpdate(CounterUpdate(<<>>, cmd_data.successful_cmds),
                  cmd_data.failed_cmds)

_remove_rare_variants(cmd_data, settings, existing_removals) ==
    RareLoop([lines_to_remove |-> {}, removal_reasons |-> EmptyMap],
             AllCmds(cmd_data), AllCmds(cmd_data), cmd_data, settings,
             existing_removals)

(* The merge that keeps the reason a line already has *)
MergeFailedReasons_keep(duplicate_reasons, failed_reasons) ==
    MapUpdate(failed_reasons, duplicate_reasons)

(* removal_reasons.update(failed_reasons): the reasons after strategy 0    *)
(* and strategy 1 of _identify_removals.                                   *)
MergeFailedReasons(duplicate_reasons, failed_reasons) ==
    MapUpdate(duplicate_reasons, failed_reasons)

(* _identify_removals with lines_to_remove = failed_removals in place of   *)
(* lines_to_remove.update(failed_removals)                                 *)
_identify_removals_assign(cmd_data, seen_commands_, settings) ==
    LET dup == find_duplicate_indices(cmd_data.cmd_to_lines, seen_commands_)
        failed == _remove_failed_similar_commands(cmd_data,
                                                  settings.similarity_threshold)
        removed1 == failed.lines_to_remove
        reasons1 == MergeFailedReasons([i \in dup |-> Duplicate],
                                       failed.removal_reasons)
        rare == IF settings.remove_rare
                THEN _remove_rare_variants(cmd_data, settings, removed1)
                ELSE [lines_to_remove |-> {}, removal_reasons |-> EmptyMap]
    IN  [duplicate_indices |-> dup,
         failed_removals |-> failed.lines_to_remove,
         rare_removals |-> rare.lines_to_remove,
         lines_to_remove |-> removed1 \cup rare.lines_to_remove,
         removal_reasons |-> MapUpdate(reasons1, rare.removal_reasons)]

_identify_removals(cmd_data, seen_commands_, settings) ==
    LET dup == find_duplicate_indices(cmd_data.cmd_to_lines, seen_commands_)
        failed == _remove_failed_similar_commands(cmd_data,
                                                  settings.similarity_threshold)
        removed1 == dup \cup failed.lines_to_remove
        reasons1 == MergeFailedReasons([i \in dup |-> Duplicate],
                                       failed.removal_reasons)
        rare == IF settings.remove_rare
                THEN _remove_rare_variants(cmd_data, settings, removed1)
                ELSE [lines_to_remove |-> {}, removal_reasons |-> EmptyMap]
    IN  [duplicate_indices |-> dup,
         failed_removals |-> failed.lines_to_remove,
         rare_removals |-> rare.lines_to_remove,
         lines_to_remove |-> removed1 \cup rare.lines_to_remove,
         removal_reasons |-> MapUpdate(reasons1, rare.removal_reasons)]

-----------------------------------------------------------------------------
(* Inputs *)

MaxChunks == 3          \* history files of the run of main: at most this many chunks
MaxFailedRecords == 4   \* histories of SpecFailed: at most this many lines
MaxRareRecords == 6     \* histories of SpecRare: at most this many lines
MaxTwiceRecords == 5    \* histories of SpecTwice: at most this many lines
MaxRuns == 2            \* SpecTwice: at most this many runs of main in a row
MaxFirstRecords == 5    \* histories of SpecFirst: at most this many lines
MaxIndexerRecords == 4  \* histories of SpecIndexer: at most this many lines
MaxSidecarLines == 4    \* sidecars of SpecLoader: at most this many lines
MaxSimLen == 3          \* SpecSimilarity: strings of at most this many characters

CmdS == <<"g", " ", "a", "b">>
CmdF == <<"g", " ", "b", "a">>
CmdP == <<"g">>
CmdG == <<"g", "a", " ", "b">>
CmdL == <<"g", " ", "a", "b", "c">>

TsOk == <<"1">>         \* the sidecar gives it exit code 0
TsFail == <<"2">>       \* the sidecar gives it exit code 1
TsNone == <<"3">>       \* the sidecar gives it no valid exit code

HistoryLine(timestamp, command) ==
    <<":", " ">> \o timestamp \o <<":", "0", ";">> \o command

Sidecar ==
    File(<<"2", ":", "0", NL,
           "1", ":", "0", NL,
           "n", "o", " ", "c", "o", "l", "o", "n", NL,
           "2", ":", " ", "1", NL,
           "3", ":", "x", NL>>)

(* Chunks of the history files of the run of main: records, a record with  *)
(* a CRLF line end, a line of other text holding an undecodable byte, and  *)
(* text with no line end.                                                  *)
Chunks ==
    { HistoryLine(TsOk, CmdS) \o <<NL>>,
      HistoryLine(TsFail, CmdF) \o <<NL>>,
      HistoryLine(TsOk, CmdS) \o <<CR, NL>>,
      <<BadByte, "j", NL>>,
      <<"j">> }

Histories ==
    UNION { {Concat(f) : f \in [1..n -> Chunks]} : n \in 0..MaxChunks }

Record(timestamp, command) == HistoryLine(timestamp, command) \o <<NL>>

HistoriesOf(records, n) ==
    UNION { {Concat(f) : f \in [1..k -> records]} : k \in 0..n }

(* Histories for the failed-similar strategy: a command that is a prefix   *)
(* of another, two similar commands, a similar command with another base   *)
(* command, failing, succeeding or with no exit code.                      *)
FailedRecords ==
    { Record(TsFail, CmdP), Record(TsOk, CmdP),
      Record(TsOk, CmdS), Record(TsFail, CmdS),
      Record(TsFail, CmdF), Record(TsNone, CmdF),
      Record(TsFail, CmdG) }

(* Histories for the rare-variant strategy. *)
RareRecords ==
    { Record(TsOk, CmdS), Record(TsOk, CmdF),
      Record(TsNone, CmdF), Record(TsFail, CmdF) }

(* Histories for the order of the candidates of a failed command: the      *)
(* command failing and succeeding, a similar command, a command it is a    *)
(* prefix of, and a similar command with another base command, succeeding. *)
FirstRecords ==
    { Record(TsFail, CmdS), Record(TsOk, CmdS), Record(TsOk, CmdF),
      Record(TsOk, CmdL), Record(TsOk, CmdG) }

(* Histories for the indexer: a command with three timestamps, another     *)
(* command, a line of other text and a record whose command is a space.    *)
IndexerRecords ==
    { Record(TsOk, CmdS), Record(TsFail, CmdS), Record(TsNone, CmdS),
      Record(TsOk, CmdF), <<"j", NL>>, Record(TsOk, <<" ">>) }

(* Mappings from timestamp to exit code: none, that of the sidecar, and    *)
(* one with a negative exit code.                                          *)
ExitMappings ==
    { <<>>, load_exit_codes(Sidecar), <<<<TsOk, -1>>, <<TsNone, 0>>>> }

(* Lines of the sidecars for the loader: exit codes 0 and 2 for one         *)
(* timestamp, a word and two numbers after its colon, a line with no colon *)
(* and a negative exit code among spaces.                                  *)
SidecarLines ==
    { <<"1", ":", "0", NL>>, <<"1", ":", "2", NL>>, <<"1", ":", "x", NL>>,
      <<"1", ":", "0", ":", "0", NL>>, <<"n", NL>>,
      <<" ", "2", ":", " ", "-", "1", " ", NL>> }

Sidecars ==
    {NoFile} \cup
    UNION { {File(Concat(f)) : f \in [1..n -> SidecarLines]} : n \in 0..MaxSidecarLines }

Thresholds == { <<1, 2>>, <<3, 4>>, <<4, 5>> }

ArgsOfFailed ==
    { [similarity_threshold |-> t, rare_threshold |-> 3,
       remove_rare |-> r, dry_run |-> FALSE, quiet |-> FALSE] :
      t \in Thresholds, r \in BOOLEAN }

ArgsOfFirst ==
    { [similarity_threshold |-> t, rare_threshold |-> 3,
       remove_rare |-> FALSE, dry_run |-> FALSE, quiet |-> FALSE] :
      t \in {<<1, 2>>, <<4, 5>>} }

ArgsOfRare ==
    { [similarity_threshold |-> t, rare_threshold |-> n,
       remove_rare |-> r, dry_run |-> FALSE, quiet |-> FALSE] :
      t \in {<<1, 2>>, <<4, 5>>}, n \in {0, 3}, r \in BOOLEAN }

(* Strings given to similarity() on its own. *)
SimAlphabet == {"a", "b", "c"}

SimStrings == UNION { [1..n -> SimAlphabet] : n \in 0..MaxSimLen }

(* Histories and options of the runs of main that are followed by another  *)
(* run: those of the run of main, and histories long enough for a command  *)
(* to be rare beside a common one.                                         *)
HistoriesOfTwice == Histories \cup HistoriesOf(RareRecords, MaxTwiceRecords)

ArgsOfTwice ==
    { [similarity_threshold |-> <<1, 2>>, rare_threshold |-> 3,
       remove_rare |-> r, dry_run |-> d, quiet |-> FALSE] :
      r \in BOOLEAN, d \in BOOLEAN }

ArgsOfMain ==
    { [similarity_threshold |-> <<1, 2>>, rare_threshold |-> 3,
       remove_rare |-> r, dry_run |-> d, quiet |-> q] :
      r \in BOOLEAN, d \in BOOLEAN, q \in BOOLEAN }

-----------------------------------------------------------------------------
(* main() *)

InitWith(histories, sidecars, arguments) ==
    /\ pc = "start"
    /\ args \in arguments
    /\ hist \in histories
    /\ hist0 = hist
    /\ exits \in sidecars
    /\ backup = NoFile
    /\ exit_codes = <<>>
    /\ all_lines = <<>>
    /\ cmd_to_lines = <<>>
    /\ seen_commands = <<>>
    /\ successful_cmds = <<>>
    /\ failed_cmds = <<>>
    /\ duplicate_indices = {}
    /\ failed_removals = {}
    /\ rare_removals = {}
    /\ lines_to_remove = {}
    /\ removal_reasons = EmptyMap
    /\ widx = 0
    /\ opened = FALSE
    /\ out = <<>>
    /\ runs = <<>>
    /\ sim_args = <<<<>>, <<>>>>
    /\ sim_calls = {}

Init == InitWith(Histories, {NoFile, Sidecar}, ArgsOfMain)

files == <<hist, hist0, exits, backup, opened>>
parsed == <<all_lines, cmd_to_lines, seen_commands, successful_cmds, failed_cmds>>
removals == <<duplicate_indices, failed_removals, rare_removals,
              lines_to_remove, removal_reasons>>

(* main going on with no copy made *)
Backup_none ==
    /\ pc = "start" /\ ~args.dry_run
    /\ pc' = "load"
    /\ UNCHANGED <<similarity_calls, runs, args, files, exit_codes, parsed, removals, widx, out>>

(* shutil.copy2(HISTORY_FILE, backup_path) *)
Backup ==
    /\ pc = "start" /\ ~args.dry_run
    /\ backup' = File(hist)
    /\ pc' = "load"
    /\ UNCHANGED <<similarity_calls, runs, args, hist, hist0, exits, opened, exit_codes, parsed,
                   removals, widx, out>>

(* shutil.copy2 raises: before the copy is created, or with nothing copied *)
BackupFails ==
    /\ pc = "start" /\ ~args.dry_run
    /\ backup' \in {backup, File(<<>>)}
    /\ pc' = "failed"
    /\ UNCHANGED <<similarity_calls, runs, args, hist, hist0, exits, opened, exit_codes, parsed,
                   removals, widx, out>>

SkipBackup ==
    /\ pc = "start" /\ args.dry_run
    /\ pc' = "load"
    /\ UNCHANGED <<similarity_calls, runs, args, files, exit_codes, parsed, removals, widx, out>>

LoadExitCodes ==
    /\ pc = "load"
    /\ exit_codes' = load_exit_codes(exits)
    /\ pc' = "parse"
    /\ UNCHANGED <<similarity_calls, runs, args, files, parsed, removals, widx, out>>

(* EXIT_FILE exists and cannot be read *)
LoadExitCodesFails ==
    /\ pc = "load" /\ exits.exists
    /\ pc' = "failed"
    /\ UNCHANGED <<similarity_calls, runs, args, files, exit_codes, parsed, removals, widx, out>>

ParseHistoryFile ==
    /\ pc = "parse"
    /\ \E r \in {_parse_history_file(exit_codes, hist)} :
         /\ all_lines' = r.all_lines
         /\ cmd_to_lines' = r.cmd_to_lines
         /\ seen_commands' = r.seen_commands
         /\ successful_cmds' = r.successful_cmds
         /\ failed_cmds' = r.failed_cmds
    /\ pc' = "identify"
    /\ UNCHANGED <<similarity_calls, runs, args, files, exit_codes, removals, widx, out>>

(* HISTORY_FILE cannot be read *)
ParseHistoryFileFails ==
    /\ pc = "parse"
    /\ pc' = "failed"
    /\ UNCHANGED <<similarity_calls, runs, args, files, exit_codes, parsed, removals, widx, out>>

CommandData ==
    [failed_cmds |-> failed_cmds, successful_cmds |-> successful_cmds,
     cmd_to_lines |-> cmd_to_lines]

IdentifyRemovals ==
    /\ pc = "identify"
    /\ \E r \in {_identify_removals(CommandData, seen_commands, args)} :
         /\ duplicate_indices' = r.duplicate_indices
         /\ failed_removals' = r.failed_removals
         /\ rare_removals' = r.rare_removals
         /\ lines_to_remove' = r.lines_to_remove
         /\ removal_reasons' = r.removal_reasons
    /\ pc' = "write"
    /\ UNCHANGED <<similarity_calls, runs, args, files, exit_codes, parsed, widx, out>>

removed_count == Cardinality(lines_to_remove)

(* the test of the write without the dry-run flag *)
WillWrite_always == removed_count > 0

WillWrite == ~args.dry_run /\ removed_count > 0

(* HISTORY_FILE.open("w"): the file is truncated *)
OpenForWrite ==
    /\ pc = "write" /\ WillWrite
    /\ hist' = <<>>
    /\ opened' = TRUE
    /\ widx' = 0
    /\ pc' = "writing"
    /\ UNCHANGED <<similarity_calls, runs, args, hist0, exits, backup, exit_codes, parsed, removals, out>>

OpenForWriteFails ==
    /\ pc = "write" /\ WillWrite
    /\ pc' = "failed"
    /\ UNCHANGED <<similarity_calls, runs, args, files, exit_codes, parsed, removals, widx, out>>

SkipWrite ==
    /\ pc = "write" /\ ~WillWrite
    /\ pc' = "report"
    /\ UNCHANGED <<similarity_calls, runs, args, files, exit_codes, parsed, removals, widx, out>>

(* The round of the write loop with f.write(line) *)
WriteLine_nonewline ==
    /\ pc = "writing" /\ widx < Len(all_lines)
    /\ hist' = IF widx \notin lines_to_remove
               THEN hist \o Encode(all_lines[widx + 1])
               ELSE hist
    /\ widx' = widx + 1
    /\ UNCHANGED <<similarity_calls, runs, pc, args, hist0, exits, backup, opened, exit_codes, parsed,
                   removals, out>>

(* One round of the loop over enumerate(all_lines) *)
WriteLine ==
    /\ pc = "writing" /\ widx < Len(all_lines)
    /\ hist' = IF widx \notin lines_to_remove
               THEN hist \o Encode(Append(all_lines[widx + 1], NL))
               ELSE hist
    /\ widx' = widx + 1
    /\ UNCHANGED <<similarity_calls, runs, pc, args, hist0, exits, backup, opened, exit_codes, parsed,
                   removals, out>>

(* f.write or the close of the file raises; what was written stays *)
WriteFails ==
    /\ pc = "writing"
    /\ pc' = "failed"
    /\ UNCHANGED <<similarity_calls, runs, args, files, exit_codes, parsed, removals, widx, out>>

CloseFile ==
    /\ pc = "writing" /\ widx = Len(all_lines)
    /\ pc' = "report"
    /\ UNCHANGED <<similarity_calls, runs, args, files, exit_codes, parsed, removals, widx, out>>

(* Counter(_removal_reasons.values()) *)
ReasonCounts(reasons) ==
    LET values == {reasons[i] : i \in DOMAIN reasons}
    IN  [v \in values |-> Cardinality({i \in DOMAIN reasons : reasons[i] = v})]

(* The lines main prints: the header with the count, then the count of    *)
(* each reason.                                                            *)
Printed(dry_run, quiet, count, reasons) ==
    IF quiet THEN <<>>
    ELSE IF count > 0
    THEN <<IF dry_run THEN "Would remove" ELSE "Removed", count,
           ReasonCounts(reasons)>>
    ELSE <<"No commands to remove">>

Report ==
    /\ pc = "report"
    /\ out' = Printed(args.dry_run, args.quiet, removed_count, removal_reasons)
    /\ pc' = "done"
    /\ UNCHANGED <<similarity_calls, runs, args, files, exit_codes, parsed, removals, widx>>

Next ==
    \/ Backup \/ BackupFails \/ SkipBackup
    \/ LoadExitCodes \/ LoadExitCodesFails
    \/ ParseHistoryFile \/ ParseHistoryFileFails
    \/ IdentifyRemovals
    \/ OpenForWrite \/ OpenForWriteFails \/ SkipWrite
    \/ WriteLine \/ WriteFails \/ CloseFile
    \/ Report

Spec == Init /\ [][Next]_vars

-----------------------------------------------------------------------------
(* main() run again on the files the run before left, with the same        *)
(* sidecar and the same command line.                                      *)

RunAgain ==
    /\ pc = "done" /\ ~args.dry_run
    /\ Len(runs) + 1 < MaxRuns
    /\ runs' = Append(runs, removal_reasons)
    /\ pc' = "start"
    /\ hist0' = hist
    /\ exit_codes' = <<>>
    /\ all_lines' = <<>>
    /\ cmd_to_lines' = <<>>
    /\ seen_commands' = <<>>
    /\ successful_cmds' = <<>>
    /\ failed_cmds' = <<>>
    /\ duplicate_indices' = {}
    /\ failed_removals' = {}
    /\ rare_removals' = {}
    /\ lines_to_remove' = {}
    /\ removal_reasons' = EmptyMap
    /\ widx' = 0
    /\ opened' = FALSE
    /\ out' = <<>>
    /\ UNCHANGED <<similarity_calls, args, hist, exits, backup>>

NextTwice ==
    \/ Backup \/ BackupFails \/ SkipBackup
    \/ LoadExitCodes \/ LoadExitCodesFails
    \/ ParseHistoryFile \/ ParseHistoryFileFails
    \/ IdentifyRemovals
    \/ OpenForWrite \/ OpenForWriteFails \/ SkipWrite
    \/ WriteLine \/ WriteFails \/ CloseFile
    \/ Report
    \/ RunAgain

InitTwice == InitWith(HistoriesOfTwice, {NoFile, Sidecar}, ArgsOfTwice)

SpecTwice == InitTwice /\ [][NextTwice]_vars

-----------------------------------------------------------------------------
(* The classification alone: main from load_exit_codes to                  *)
(* _identify_removals, on the files as they are.                           *)

Classify ==
    /\ pc = "start"
    /\ \E codes \in {load_exit_codes(exits)} :
       \E r \in {_parse_history_file(codes, hist)} :
       \E m \in {_identify_removals(
                     [failed_cmds |-> r.failed_cmds,
                      successful_cmds |-> r.successful_cmds,
                      cmd_to_lines |-> r.cmd_to_lines],
                     r.seen_commands, args)} :
           /\ exit_codes' = codes
           /\ all_lines' = r.all_lines
           /\ cmd_to_lines' = r.cmd_to_lines
           /\ seen_commands' = r.seen_commands
           /\ successful_cmds' = r.successful_cmds
           /\ failed_cmds' = r.failed_cmds
           /\ duplicate_indices' = m.duplicate_indices
           /\ failed_removals' = m.failed_removals
           /\ rare_removals' = m.rare_removals
           /\ lines_to_remove' = m.lines_to_remove
           /\ removal_reasons' = m.removal_reasons
    /\ pc' = "write"
    /\ UNCHANGED <<similarity_calls, runs, args, files, widx, out>>

NextClassify == Classify

InitFailed ==
    InitWith(HistoriesOf(FailedRecords, MaxFailedRecords), {Sidecar}, ArgsOfFailed)

InitRare ==
    InitWith(HistoriesOf(RareRecords, MaxRareRecords), {Sidecar}, ArgsOfRare)

SpecFailed == InitFailed /\ [][NextClassify]_vars

SpecRare == InitRare /\ [][NextClassify]_vars

InitFirst ==
    InitWith(HistoriesOf(FirstRecords, MaxFirstRecords), {Sidecar}, ArgsOfFirst)

SpecFirst == InitFirst /\ [][NextClassify]_vars

-----------------------------------------------------------------------------
(* _parse_history_file() called on its own, with a given mapping from      *)
(* timestamp to exit code.                                                 *)

NextIndexer == ParseHistoryFile

InitIndexer ==
    /\ pc = "parse"
    /\ exit_codes \in ExitMappings
    /\ hist \in HistoriesOf(IndexerRecords, MaxIndexerRecords)
    /\ hist0 = hist
    /\ args = [similarity_threshold |-> <<4, 5>>, rare_threshold |-> 3,
               remove_rare |-> FALSE, dry_run |-> FALSE, quiet |-> FALSE]
    /\ exits = NoFile /\ backup = NoFile
    /\ all_lines = <<>> /\ cmd_to_lines = <<>>
    /\ seen_commands = <<>> /\ successful_cmds = <<>> /\ failed_cmds = <<>>
    /\ duplicate_indices = {} /\ failed_removals = {} /\ rare_removals = {}
    /\ lines_to_remove = {} /\ removal_reasons = EmptyMap
    /\ widx = 0 /\ opened = FALSE /\ out = <<>> /\ runs = <<>>
    /\ sim_args = <<<<>>, <<>>>> /\ sim_calls = {}

SpecIndexer == InitIndexer /\ [][NextIndexer]_vars

-----------------------------------------------------------------------------
(* load_exit_codes() called on its own.                                    *)

NextLoader == LoadExitCodes

InitLoader ==
    /\ pc = "load"
    /\ exits \in Sidecars
    /\ hist = <<>> /\ hist0 = <<>> /\ backup = NoFile
    /\ args = [similarity_threshold |-> <<4, 5>>, rare_threshold |-> 3,
               remove_rare |-> FALSE, dry_run |-> FALSE, quiet |-> FALSE]
    /\ exit_codes = <<>> /\ all_lines = <<>> /\ cmd_to_lines = <<>>
    /\ seen_commands = <<>> /\ successful_cmds = <<>> /\ failed_cmds = <<>>
    /\ duplicate_indices = {} /\ failed_removals = {} /\ rare_removals = {}
    /\ lines_to_remove = {} /\ removal_reasons = EmptyMap
    /\ widx = 0 /\ opened = FALSE /\ out = <<>> /\ runs = <<>>
    /\ sim_args = <<<<>>, <<>>>> /\ sim_calls = {}

SpecLoader == InitLoader /\ [][NextLoader]_vars

-----------------------------------------------------------------------------
(* similarity() called on its own, on a pair of strings in both orders.    *)

CallSimilarity ==
    /\ pc = "similarity"
    /\ \E a \in {sim_args[1], sim_args[2]}, b \in {sim_args[1], sim_args[2]} :
         /\ \A c \in sim_calls : <<c[1], c[2]>> # <<a, b>>
         /\ sim_calls' = sim_calls \cup {<<a, b, similarity(a, b)>>}
    /\ UNCHANGED <<sim_args, runs, pc, args, files, exit_codes, parsed, removals,
                   widx, out>>

NextSimilarity == CallSimilarity

InitSimilarity ==
    /\ pc = "similarity"
    /\ sim_args \in SimStrings \X SimStrings
    /\ sim_calls = {}
    /\ args = [similarity_threshold |-> <<4, 5>>, rare_threshold |-> 3,
               remove_rare |-> FALSE, dry_run |-> FALSE, quiet |-> FALSE]
    /\ hist = <<>> /\ hist0 = <<>> /\ exits = NoFile /\ backup = NoFile
    /\ exit_codes = <<>> /\ all_lines = <<>> /\ cmd_to_lines = <<>>
    /\ seen_commands = <<>> /\ successful_cmds = <<>> /\ failed_cmds = <<>>
    /\ duplicate_indices = {} /\ failed_removals = {} /\ rare_removals = {}
    /\ lines_to_remove = {} /\ removal_reasons = EmptyMap
    /\ widx = 0 /\ opened = FALSE /\ out = <<>> /\ runs = <<>>

SpecSimilarity == InitSimilarity /\ [][NextSimilarity]_vars

-----------------------------------------------------------------------------
(* Properties *)

Classified == pc \in {"write", "writing", "report", "done"}

LineIndices == 0..(Len(all_lines) - 1)
RecordAt(i) == parse_history_line(all_lines[i + 1])
Indexed(i) == RecordAt(i).command # <<>> /\ RecordAt(i).timestamp # <<>>
CommandAt(i) == RecordAt(i).command
IndicesOf(c) == {i \in LineIndices : Indexed(i) /\ CommandAt(i) = c}

(* C1: find_duplicate_indices returns exactly the line indices of the      *)
(* commands that occur more than once, minus the first-seen index of each: *)
(* the indices of the lines whose command occurred on an earlier line; a   *)
(* command that occurs once contributes no index.                          *)
C1_DuplicateIndices ==
    Classified =>
      /\ duplicate_indices =
           UNION { IF Len(cmd_to_lines[n][2]) > 1
                   THEN SeqToSet(cmd_to_lines[n][2])
                          \ {Get(seen_commands, cmd_to_lines[n][1])}
                   ELSE {} : n \in 1..Len(cmd_to_lines) }
      /\ duplicate_indices =
           {i \in LineIndices :
              Indexed(i) /\ \E j \in LineIndices :
                               j < i /\ Indexed(j) /\ CommandAt(j) = CommandAt(i)}
      /\ \A i \in LineIndices :
           Indexed(i) /\ Cardinality(IndicesOf(CommandAt(i))) = 1
             => i \notin duplicate_indices

(* A command on three lines, its second and third line marked, beside a    *)
(* command on one line.                                                    *)
C1_Witness ==
    /\ Classified
    /\ \E i \in LineIndices :
         /\ Indexed(i) /\ Cardinality(IndicesOf(CommandAt(i))) = 3
         /\ Cardinality(IndicesOf(CommandAt(i)) \cap duplicate_indices) = 2
    /\ \E i \in LineIndices :
         Indexed(i) /\ Cardinality(IndicesOf(CommandAt(i))) = 1

ReasonKind(i) == removal_reasons[i][1]
FailedKinds == {"Failed prefix of", "Failed similar to"}

(* C2 as stated: every removed line has one reason, that of the first      *)
(* strategy that marks it: Duplicate over failed-similar over rare-variant.*)
C2_FirstStrategyWins ==
    Classified =>
      /\ DOMAIN removal_reasons = lines_to_remove
      /\ \A i \in lines_to_remove :
           IF i \in duplicate_indices THEN removal_reasons[i] = Duplicate
           ELSE IF i \in failed_removals THEN ReasonKind(i) \in FailedKinds
           ELSE ReasonKind(i) = "Rare variant of"

(* C2, amended: every removed line has one reason; a line the              *)
(* failed-similar strategy marks has its reason, also when the line is a   *)
(* duplicate; any other duplicate has the reason Duplicate; the            *)
(* rare-variant strategy marks, and gives its reason to, only lines that   *)
(* no earlier strategy marked.                                             *)
C2_ReasonPrecedence ==
    Classified =>
      /\ DOMAIN removal_reasons = lines_to_remove
      /\ lines_to_remove = duplicate_indices \cup failed_removals \cup rare_removals
      /\ rare_removals \cap (duplicate_indices \cup failed_removals) = {}
      /\ \A i \in lines_to_remove :
           IF i \in failed_removals THEN ReasonKind(i) \in FailedKinds
           ELSE IF i \in duplicate_indices THEN removal_reasons[i] = Duplicate
           ELSE ReasonKind(i) = "Rare variant of"

(* A duplicate line that the failed-similar strategy marks too, and a       *)
(* duplicate line of a command whose first line the rare-variant strategy  *)
(* marks.                                                                  *)
C2_Witness ==
    /\ Classified
    /\ \E i \in duplicate_indices \cap failed_removals :
         ReasonKind(i) \in FailedKinds

C2_WitnessRare ==
    /\ Classified
    /\ \E i \in duplicate_indices, j \in rare_removals :
         /\ CommandAt(i) = CommandAt(j)
         /\ removal_reasons[i] = Duplicate

SuccessCount(c) == GetOr(successful_cmds, c, 0)
FailCount(c) == GetOr(failed_cmds, c, 0)
SameBase(c, d) == get_base_command(c) = get_base_command(d)
Threshold == args.similarity_threshold

(* S is a proper extension of F that succeeded more often than F failed *)
PrefixCase(F, S) ==
    /\ StartsWith(S, F) /\ Len(S) > Len(F)
    /\ SuccessCount(S) > FailCount(F)

(* S is similar to F, not equal, and succeeded more often than F failed *)
SimilarCase(F, S) ==
    /\ Leq(Threshold, similarity(F, S)) /\ Less(similarity(F, S), One)
    /\ SuccessCount(S) > FailCount(F)

(* the successful command at position n qualifies for the failed command F *)
Qualifies(F, n) ==
    LET S == successful_cmds[n][1]
    IN  SameBase(F, S) /\ (PrefixCase(F, S) \/ SimilarCase(F, S))

(* C5: when a failed command F has a successful command S with the same   *)
(* base command that starts with F, is longer than F and succeeded more    *)
(* often than F failed, every line of F is marked for removal, whatever    *)
(* the similarity of F and S; the reason of these lines is "Failed prefix  *)
(* of S" when no candidate before S qualifies.                             *)
C5_PrefixRule ==
    Classified =>
      \A nf \in 1..Len(failed_cmds), ns \in 1..Len(successful_cmds) :
        LET F == failed_cmds[nf][1]
            S == successful_cmds[ns][1]
        IN  SameBase(F, S) /\ PrefixCase(F, S) =>
              /\ IndicesOf(F) # {}
              /\ IndicesOf(F) \subseteq failed_removals
              /\ IndicesOf(F) \subseteq lines_to_remove
              /\ (\A m \in 1..(ns - 1) : ~Qualifies(F, m)) =>
                   \A i \in IndicesOf(F) : removal_reasons[i] = FailedPrefix(S)

(* A command with a failed and a successful line, a prefix of a command    *)
(* that is less similar to it than the threshold: both lines are marked    *)
(* "Failed prefix of".                                                     *)
C5_Witness ==
    /\ Classified
    /\ \E nf \in 1..Len(failed_cmds), ns \in 1..Len(successful_cmds) :
         LET F == failed_cmds[nf][1]
             S == successful_cmds[ns][1]
         IN  /\ SameBase(F, S) /\ PrefixCase(F, S)
             /\ Less(similarity(F, S), Threshold)
             /\ SuccessCount(F) > 0
             /\ Cardinality(IndicesOf(F)) >= 2
             /\ \A i \in IndicesOf(F) : removal_reasons[i] = FailedPrefix(S)

(* C6: a line has the reason "Failed similar to S" only if its command F   *)
(* failed, S succeeded more often than F failed, S has the base command of *)
(* F and threshold <= similarity(F, S) < 1; no line is marked by the       *)
(* failed-similar strategy on account of its own command or of a command   *)
(* with another base command; a failed command for which no other          *)
(* successful command qualifies has no line marked by the strategy.        *)
C6_SimilarRule ==
    Classified =>
      /\ \A i \in failed_removals :
           LET F == CommandAt(i)
               S == removal_reasons[i][2]
           IN  /\ Indexed(i)
               /\ ReasonKind(i) \in FailedKinds
               /\ FailCount(F) > 0 /\ SuccessCount(S) > FailCount(F)
               /\ S # F /\ SameBase(F, S)
               /\ ReasonKind(i) = "Failed similar to" => SimilarCase(F, S)
               /\ ReasonKind(i) = "Failed prefix of" => PrefixCase(F, S)
      /\ \A nf \in 1..Len(failed_cmds) :
           LET F == failed_cmds[nf][1]
           IN  (\A ns \in 1..Len(successful_cmds) :
                    successful_cmds[ns][1] # F => ~Qualifies(F, ns))
                 => IndicesOf(F) \cap failed_removals = {}

(* A command marked "Failed similar to" beside a command that failed, and  *)
(* succeeded more often than it failed, and is not marked by the strategy; *)
(* and a failed command similar to a successful one with another base      *)
(* command, not marked.                                                    *)
C6_Witness ==
    /\ Classified
    /\ \E i \in failed_removals : ReasonKind(i) = "Failed similar to"
    /\ \E n \in 1..Len(failed_cmds) :
         LET c == failed_cmds[n][1]
         IN  /\ SuccessCount(c) > FailCount(c)
             /\ IndicesOf(c) \cap failed_removals = {}

C6_WitnessOtherBase ==
    /\ Classified
    /\ \E nf \in 1..Len(failed_cmds), ns \in 1..Len(successful_cmds) :
         LET F == failed_cmds[nf][1]
             S == successful_cmds[ns][1]
         IN  /\ ~SameBase(F, S) /\ Leq(Threshold, similarity(F, S))
             /\ SuccessCount(S) > FailCount(F)
             /\ IndicesOf(F) \cap lines_to_remove = {}

OverallCount(c) == SuccessCount(c) + FailCount(c)

(* the commands in the order _remove_rare_variants iterates them: those    *)
(* with a successful line, then those with failed lines only               *)
CountedCmds ==
    Keys(successful_cmds)
      \o SelectSeq(Keys(failed_cmds), LAMBDA c : ~Has(successful_cmds, c))

RareCandidate(R, C) ==
    /\ SameBase(R, C)
    /\ OverallCount(C) > 3 * OverallCount(R)
    /\ Leq(Threshold, similarity(R, C))

FirstCommon(R, C) ==
    \E n \in 1..Len(CountedCmds) :
      /\ CountedCmds[n] = C /\ RareCandidate(R, C)
      /\ \A m \in 1..(n - 1) : ~RareCandidate(R, CountedCmds[m])

MarkedRare(i, C) == i \in lines_to_remove /\ removal_reasons[i] = RareVariant(C)

(* C7 as stated: a line is marked "Rare variant of C" exactly when         *)
(* remove_rare is set, the overall count of its command R is at most       *)
(* rare_threshold, C is the first command with the base command of R, an   *)
(* overall count above 3 times that of R and similarity(R, C) >=           *)
(* threshold, and the line is not marked by an earlier strategy.           *)
C7_RareVariantAnyCount ==
    Classified =>
      \A i \in LineIndices, n \in 1..Len(CountedCmds) :
        Indexed(i) =>
          LET R == CommandAt(i)
              C == CountedCmds[n]
          IN  MarkedRare(i, C) <=>
                /\ args.remove_rare
                /\ OverallCount(R) <= args.rare_threshold
                /\ FirstCommon(R, C)
                /\ i \notin duplicate_indices \cup failed_removals

(* C7, amended: as stated, for a command R of which at least one line has  *)
(* an exit code (overall count >= 1); a command none of whose lines has an *)
(* exit code is never marked by this strategy.  With remove_rare unset, or *)
(* the count of R above rare_threshold, no line of R is marked by it.      *)
C7_RareVariant ==
    Classified =>
      /\ \A i \in LineIndices, n \in 1..Len(CountedCmds) :
           Indexed(i) =>
             LET R == CommandAt(i)
                 C == CountedCmds[n]
             IN  MarkedRare(i, C) <=>
                   /\ args.remove_rare
                   /\ OverallCount(R) >= 1
                   /\ OverallCount(R) <= args.rare_threshold
                   /\ FirstCommon(R, C)
                   /\ i \notin duplicate_indices \cup failed_removals
      /\ rare_removals = {i \in lines_to_remove : ReasonKind(i) = "Rare variant of"}
      /\ \A i \in rare_removals :
           /\ Indexed(i) /\ args.remove_rare
           /\ 1 <= OverallCount(CommandAt(i))
           /\ OverallCount(CommandAt(i)) <= args.rare_threshold
           /\ \E n \in 1..Len(CountedCmds) : MarkedRare(i, CountedCmds[n])

(* The first line of a rare command is marked "Rare variant of", a later   *)
(* line of it was marked by the duplicate strategy and is left alone.      *)
C7_Witness ==
    /\ Classified
    /\ \E i \in rare_removals, j \in duplicate_indices :
         /\ CommandAt(i) = CommandAt(j)
         /\ ReasonKind(i) = "Rare variant of"
         /\ removal_reasons[j] = Duplicate

(* The lines of the history file as main read them at the start of the run *)
OriginalLines ==
    [n \in 1..Len(ReadLines(hist0)) |-> RStripNL(ReadLines(hist0)[n])]

(* lines[idx + 1 ..], those whose index is not in removed, each followed   *)
(* by a newline                                                            *)
RECURSIVE KeptText(_, _, _)
KeptText(lines, idx, removed) ==
    IF idx >= Len(lines) THEN <<>>
    ELSE (IF idx \in removed THEN <<>> ELSE Append(lines[idx + 1], NL))
           \o KeptText(lines, idx + 1, removed)

Rewritten == pc \in {"report", "done"} /\ ~args.dry_run /\ removed_count > 0

(* C3: after a run that is not a dry run and removes at least one line,    *)
(* the history file is the lines main read from it whose index is not in   *)
(* the removal set, in their order, each followed by one newline.          *)
C3_Writer ==
    Rewritten =>
      /\ opened
      /\ lines_to_remove \subseteq 0..(Len(OriginalLines) - 1)
      /\ hist = KeptText(OriginalLines, 0, lines_to_remove)

(* A rewritten file with a kept line before and after a removed line. *)
C3_Witness ==
    /\ pc = "done" /\ Rewritten
    /\ \E i, j, k \in LineIndices :
         /\ i < j /\ j < k
         /\ i \notin lines_to_remove /\ j \in lines_to_remove
         /\ k \notin lines_to_remove

(* The lines of a file as its bytes give them: split at the newlines, the  *)
(* line end (a newline, or a carriage return and a newline) taken off.     *)
StripLineEnd(raw) ==
    LET a == IF raw # <<>> /\ raw[Len(raw)] = NL
             THEN SubSeq(raw, 1, Len(raw) - 1) ELSE raw
    IN  IF a # <<>> /\ a[Len(a)] = CR THEN SubSeq(a, 1, Len(a) - 1) ELSE a

ByteLines(bytes) ==
    LET raw == SplitKeepEnds(bytes, <<>>)
    IN  [n \in 1..Len(raw) |-> StripLineEnd(raw[n])]

(* C4 as stated: every removed index is the index of a line that parsed to *)
(* a timestamp and a non-empty command; a line that does not match the     *)
(* record pattern is in no index list, counted in no counter and not       *)
(* removed, and after a rewrite it is in the history file as it was.       *)
C4_OpaqueLines ==
    /\ Classified =>
         /\ \A i \in lines_to_remove : i \in LineIndices /\ Indexed(i)
         /\ \A n \in 1..Len(cmd_to_lines) :
              \A i \in SeqToSet(cmd_to_lines[n][2]) : i \in LineIndices /\ Indexed(i)
         /\ \A n \in 1..Len(cmd_to_lines) :
              OverallCount(cmd_to_lines[n][1]) <= Cardinality(IndicesOf(cmd_to_lines[n][1]))
         /\ KeySet(successful_cmds) \cup KeySet(failed_cmds) \subseteq KeySet(cmd_to_lines)
    /\ Rewritten =>
         \A n \in 1..Len(ByteLines(hist0)) :
           ~parse_history_line(Decode(ByteLines(hist0)[n])).matched
             => \E m \in 1..Len(ByteLines(hist)) :
                    ByteLines(hist)[m] = ByteLines(hist0)[n]

(* What a run that is not a dry run computes from the same files *)
NonDryRemovals ==
    LET r == _parse_history_file(load_exit_codes(exits), hist0)
    IN  _identify_removals(r, r.seen_commands, [args EXCEPT !.dry_run = FALSE])

(* C8: in a dry run the history file is never opened for writing and no    *)
(* backup is made: both files stay as they were; the removal set and the   *)
(* counts printed are those of a run on the same files that is not a dry   *)
(* run.                                                                    *)
C8_DryRunFrame ==
    args.dry_run =>
      /\ hist = hist0 /\ backup = NoFile /\ ~opened /\ pc # "writing"
      /\ pc \in {"write", "report", "done"} =>
           /\ lines_to_remove = NonDryRemovals.lines_to_remove
           /\ removal_reasons = NonDryRemovals.removal_reasons
      /\ pc = "done" /\ ~args.quiet =>
           out = IF NonDryRemovals.lines_to_remove = {}
                 THEN <<"No commands to remove">>
                 ELSE <<"Would remove",
                        Cardinality(NonDryRemovals.lines_to_remove),
                        ReasonCounts(NonDryRemovals.removal_reasons)>>

(* A dry run that found lines to remove and printed their counts. *)
C8_Witness ==
    /\ pc = "done" /\ args.dry_run /\ ~args.quiet
    /\ removed_count > 0 /\ Len(out) = 3 /\ hist = hist0

(* C9: in a run that is not a dry run the backup holds the content the     *)
(* history file had at the start before the history file is read or opened *)
(* for writing, and from then on; a run whose backup failed has stopped    *)
(* with the history file as it was.                                        *)
C9_BackupFirst ==
    ~args.dry_run =>
      /\ pc \in {"load", "parse", "identify", "write", "writing", "report", "done"}
           => backup = File(hist0)
      /\ (opened \/ all_lines # <<>> \/ hist # hist0) => backup = File(hist0)
      /\ backup # File(hist0) =>
           /\ pc \in {"start", "failed"}
           /\ hist = hist0 /\ ~opened /\ all_lines = <<>>

(* A finished run that rewrote the history file: the backup holds what the *)
(* file held before.                                                       *)
C9_Witness ==
    /\ pc = "done" /\ ~args.dry_run /\ opened
    /\ hist # hist0 /\ backup = File(hist0)

(* A run stopped by a failed backup. *)
C9_WitnessFailed ==
    /\ pc = "failed" /\ ~args.dry_run /\ backup # File(hist0) /\ hist = hist0

(* C10 as stated: after a run stopped by a failed step the history file is *)
(* the complete original or the complete cleaned output.                   *)
C10_NoPartialRewrite ==
    pc = "failed" =>
      \/ hist = hist0
      \/ hist = KeptText(OriginalLines, 0, lines_to_remove)

(* C11: when main has run to its end, not as a dry run, and is run again   *)
(* on the history file it left, with the same sidecar and options, the     *)
(* later run marks no line for removal, never opens the history file for   *)
(* writing and leaves it as it found it.                                   *)
C11_Idempotent ==
    Len(runs) >= 1 =>
      /\ lines_to_remove = {} /\ DOMAIN removal_reasons = {}
      /\ duplicate_indices = {} /\ failed_removals = {} /\ rare_removals = {}
      /\ hist = hist0 /\ ~opened /\ pc # "writing"
      /\ pc = "done" => out = <<"No commands to remove">>

(* A second run that came to its end after a first run that removed a      *)
(* duplicate and a rare variant, and one after a first run that removed a  *)
(* failed command.                                                         *)
C11_Witness ==
    /\ Len(runs) = 1 /\ pc = "done"
    /\ \E i, j \in DOMAIN runs[1] :
         runs[1][i] = Duplicate /\ runs[1][j][1] = "Rare variant of"
    /\ all_lines # <<>>

C11_WitnessFailed ==
    /\ Len(runs) = 1 /\ pc = "done"
    /\ \E i \in DOMAIN runs[1] : runs[1][i][1] = "Failed similar to"
    /\ all_lines # <<>>

(* A second run on a rewritten file that holds a line of other text.       *)
C11_WitnessOther ==
    /\ Len(runs) = 1 /\ runs[1] # EmptyMap /\ pc = "done"
    /\ \E i \in LineIndices : ~Indexed(i)

(* C12 as stated: similarity is symmetric: for every pair of strings a and *)
(* b, similarity(a, b) and similarity(b, a) are the same ratio.            *)
C12_Symmetric ==
    \A c \in sim_calls, d \in sim_calls :
      c[1] = d[2] /\ c[2] = d[1] => Leq(c[3], d[3]) /\ Leq(d[3], c[3])

(* the lines of command c whose timestamp has exit code 0 *)
SuccessLines(c) ==
    {i \in IndicesOf(c) : GetOr(exit_codes, RecordAt(i).timestamp, 1) = 0}

(* the positions in successful_cmds of the candidates that qualify for F *)
QualifyingAt(F) == {n \in 1..Len(successful_cmds) : Qualifies(F, n)}

(* the reason the candidate S gives: the prefix rule is tested first *)
ReasonOf(F, S) == IF PrefixCase(F, S) THEN FailedPrefix(S) ELSE FailedSimilar(S)

(* C13: the successful commands are scanned in the order of their first    *)
(* successful line; the lines of a failed command F have the reason of the *)
(* first candidate with the base command of F that passes the prefix rule  *)
(* or the similarity rule, "Failed prefix of" when it passes the prefix    *)
(* rule, whatever candidates come after it; with no such candidate the     *)
(* strategy marks no line of F.                                            *)
C13_FirstMatch ==
    Classified =>
      /\ \A m \in 1..Len(successful_cmds), n \in 1..Len(successful_cmds) :
           m < n =>
             \E i \in SuccessLines(successful_cmds[m][1]) :
               \A j \in SuccessLines(successful_cmds[n][1]) : i < j
      /\ \A nf \in 1..Len(failed_cmds) :
           LET F == failed_cmds[nf][1]
           IN  IF QualifyingAt(F) = {}
               THEN IndicesOf(F) \cap failed_removals = {}
               ELSE LET n == CHOOSE q \in QualifyingAt(F) :
                                \A r \in QualifyingAt(F) : q <= r
                    IN  \A i \in IndicesOf(F) :
                          /\ i \in failed_removals
                          /\ removal_reasons[i] = ReasonOf(F, successful_cmds[n][1])

(* A failed command whose lines have the reason "Failed similar to" of the *)
(* first candidate, with a later candidate that it is a prefix of and that *)
(* is more similar to it.                                                  *)
C13_Witness ==
    /\ Classified
    /\ \E nf \in 1..Len(failed_cmds) :
         LET F == failed_cmds[nf][1]
         IN  \E m \in QualifyingAt(F), n \in QualifyingAt(F) :
               LET S == successful_cmds[m][1]
                   T == successful_cmds[n][1]
               IN  /\ m < n /\ ~PrefixCase(F, S) /\ PrefixCase(F, T)
                   /\ Less(similarity(F, S), similarity(F, T))
                   /\ IndicesOf(F) # {}
                   /\ \A i \in IndicesOf(F) : removal_reasons[i] = FailedSimilar(S)

(* A failed command with the reason of the second candidate, the first one *)
(* having succeeded no more often than the command failed.                 *)
C13_WitnessSkipped ==
    /\ Classified
    /\ \E nf \in 1..Len(failed_cmds) :
         LET F == failed_cmds[nf][1]
         IN  \E m \in 1..Len(successful_cmds), n \in QualifyingAt(F) :
               /\ m < n /\ m \notin QualifyingAt(F)
               /\ SameBase(F, successful_cmds[m][1]) /\ successful_cmds[m][1] # F
               /\ \A i \in IndicesOf(F) :
                    removal_reasons[i] = ReasonOf(F, successful_cmds[n][1])

AfterParse == pc = "identify"

(* the exit code the mapping gives the timestamp of line i, <<>> for none *)
ExitCodeAt(i) ==
    IF Has(exit_codes, RecordAt(i).timestamp)
    THEN <<Get(exit_codes, RecordAt(i).timestamp)>> ELSE <<>>

(* C14: after _parse_history_file every line of the file is in all_lines;  *)
(* the commands of cmd_to_lines are those of the lines that parse to a     *)
(* timestamp and a command; for each of them cmd_to_lines holds the        *)
(* indices of all its lines in increasing order, seen_commands the first   *)
(* of them, successful_cmds the number of its lines whose timestamp has    *)
(* exit code 0 and failed_cmds the number whose timestamp has another exit *)
(* code; a line whose timestamp has no exit code is counted in neither.    *)
C14_Indexer ==
    AfterParse =>
      /\ Len(all_lines) = Len(ReadLines(hist0))
      /\ KeySet(cmd_to_lines) = {CommandAt(i) : i \in {j \in LineIndices : Indexed(j)}}
      /\ KeySet(seen_commands) = KeySet(cmd_to_lines)
      /\ KeySet(successful_cmds) \cup KeySet(failed_cmds) \subseteq KeySet(cmd_to_lines)
      /\ \A m \in 1..Len(cmd_to_lines), n \in 1..Len(cmd_to_lines) :
           cmd_to_lines[m][1] = cmd_to_lines[n][1] => m = n
      /\ \A n \in 1..Len(cmd_to_lines) :
           LET c == cmd_to_lines[n][1]
               indices == cmd_to_lines[n][2]
           IN  /\ SeqToSet(indices) = IndicesOf(c)
               /\ indices # <<>>
               /\ \A k \in 1..(Len(indices) - 1) : indices[k] < indices[k + 1]
               /\ Get(seen_commands, c) = indices[1]
               /\ SuccessCount(c) =
                    Cardinality({i \in IndicesOf(c) : ExitCodeAt(i) = <<0>>})
               /\ FailCount(c) =
                    Cardinality({i \in IndicesOf(c) :
                                    ExitCodeAt(i) # <<>> /\ ExitCodeAt(i) # <<0>>})
               /\ SuccessCount(c) + FailCount(c)
                    = Len(indices) - Cardinality({i \in IndicesOf(c) : ExitCodeAt(i) = <<>>})
               /\ SuccessCount(c) + FailCount(c) <= Len(indices)

(* A command on three lines, one with exit code 0, one with another exit   *)
(* code and one with none, after a line that is not a record.              *)
C14_Witness ==
    /\ AfterParse
    /\ 0 \in LineIndices /\ ~Indexed(0)
    /\ \E n \in 1..Len(cmd_to_lines) :
         LET c == cmd_to_lines[n][1]
         IN  /\ Len(cmd_to_lines[n][2]) = 3
             /\ SuccessCount(c) = 1 /\ FailCount(c) = 1

(* A record whose command is a space is in no index. *)
C14_WitnessBlank ==
    /\ AfterParse
    /\ \E i \in LineIndices : RecordAt(i).matched /\ ~Indexed(i)
    /\ cmd_to_lines # <<>>

AfterLoad == pc = "parse"

(* the lines of the sidecar, without their line ends *)
ExitLines == ByteLines(exits.data)

(* what a sidecar line says: <<timestamp, exit code>> when it has a colon  *)
(* and an integer after the first colon, <<>> otherwise                    *)
EntryOf(text) ==
    LET line == Strip(text)
        colon == Find(line, ":")
        code == IntParse(SubSeq(line, colon + 1, Len(line)))
    IN  IF colon = 0 \/ code = <<>> THEN <<>>
        ELSE <<SubSeq(line, 1, colon - 1), code[1]>>

ValidLines == {n \in 1..Len(ExitLines) : EntryOf(ExitLines[n]) # <<>>}

ValidLinesOf(timestamp) ==
    {n \in ValidLines : EntryOf(ExitLines[n])[1] = timestamp}

(* C15: load_exit_codes returns a mapping that holds a timestamp exactly   *)
(* when a sidecar line has that timestamp before its first colon and an    *)
(* integer after it, with the exit code of the last such line; lines with  *)
(* no colon or with no integer after the colon change nothing; with no     *)
(* sidecar file the mapping is empty.                                      *)
C15_Loader ==
    AfterLoad =>
      /\ ~exits.exists => exit_codes = <<>>
      /\ \A m \in 1..Len(exit_codes), n \in 1..Len(exit_codes) :
           exit_codes[m][1] = exit_codes[n][1] => m = n
      /\ KeySet(exit_codes) = {EntryOf(ExitLines[n])[1] : n \in ValidLines}
      /\ \A k \in KeySet(exit_codes) :
           \E n \in ValidLinesOf(k) :
             /\ \A m \in ValidLinesOf(k) : m <= n
             /\ Get(exit_codes, k) = EntryOf(ExitLines[n])[2]

(* A timestamp with two exit codes on two lines and, after them, a line    *)
(* with no integer after the colon: the mapping holds the second exit      *)
(* code.                                                                   *)
C15_Witness ==
    /\ AfterLoad
    /\ \E m \in ValidLines, n \in ValidLines, x \in 1..Len(ExitLines) :
         /\ m < n /\ n < x /\ x \notin ValidLines
         /\ Find(ExitLines[x], ":") # 0
         /\ EntryOf(ExitLines[m])[1] = EntryOf(ExitLines[n])[1]
         /\ EntryOf(ExitLines[m])[2] # EntryOf(ExitLines[n])[2]
         /\ SubSeq(ExitLines[x], 1, Find(ExitLines[x], ":") - 1) = EntryOf(ExitLines[n])[1]
         /\ Get(exit_codes, EntryOf(ExitLines[n])[1]) = EntryOf(ExitLines[n])[2]

(* No sidecar file: the empty mapping. *)
C15_WitnessMissing == AfterLoad /\ ~exits.exists /\ exit_codes = <<>>

(* A negative exit code among spaces, and a line with no colon. *)
C15_WitnessSigned ==
    /\ AfterLoad
    /\ \E n \in 1..Len(exit_codes) : exit_codes[n][2] < 0
    /\ \E x \in 1..Len(ExitLines) : Find(ExitLines[x], ":") = 0

(* the lines of command c that are not marked for removal *)
KeptOf(c) == IndicesOf(c) \ lines_to_remove

(* the lines of the history file as it is now *)
FileLines == [n \in 1..Len(ReadLines(hist)) |-> RStripNL(ReadLines(hist)[n])]

(* the lines of the history file that are records of command c *)
FileLinesOf(c) ==
    {n \in 1..Len(FileLines) :
       /\ parse_history_line(FileLines[n]).matched
       /\ parse_history_line(FileLines[n]).command = c}

(* C16: after _identify_removals the lines of each indexed command that    *)
(* are not marked for removal are its first line alone, or none; every     *)
(* marked line has a reason and every reason belongs to a marked line; and *)
(* after a run of main that came to its end and was not a dry run, no      *)
(* command is on more than one line of the history file.                   *)
C16_FirstOrNone ==
    /\ Classified =>
         /\ DOMAIN removal_reasons = lines_to_remove
         /\ \A n \in 1..Len(cmd_to_lines) :
              LET c == cmd_to_lines[n][1]
              IN  \/ KeptOf(c) = {}
                  \/ KeptOf(c) = {Get(seen_commands, c)}
    /\ pc = "done" /\ ~args.dry_run =>
         \A n \in 1..Len(cmd_to_lines) :
           /\ Cardinality(FileLinesOf(cmd_to_lines[n][1])) <= 1
           /\ Cardinality(FileLinesOf(cmd_to_lines[n][1]))
                = Cardinality(KeptOf(cmd_to_lines[n][1]))

(* A first run that came to its end: of one command on several lines the   *)
(* first line is kept, of another command on several lines none is kept,   *)
(* and the rewritten file holds the first command once.                    *)
C16_Witness ==
    /\ pc = "done" /\ ~args.dry_run /\ opened /\ runs = <<>>
    /\ \E m \in 1..Len(cmd_to_lines), n \in 1..Len(cmd_to_lines) :
         LET c == cmd_to_lines[m][1]
             d == cmd_to_lines[n][1]
         IN  /\ Len(cmd_to_lines[m][2]) >= 2 /\ Len(cmd_to_lines[n][2]) >= 2
             /\ KeptOf(c) = {Get(seen_commands, c)}
             /\ KeptOf(d) = {}
             /\ Cardinality(FileLinesOf(c)) = 1
             /\ FileLinesOf(d) = {}

(* A run in which the rare-variant strategy marks the line of a command,   *)
(* beside a command of which the first line is kept.                       *)
C16_WitnessRare ==
    /\ pc = "done" /\ ~args.dry_run /\ opened
    /\ \E m \in 1..Len(cmd_to_lines), n \in 1..Len(cmd_to_lines) :
         LET c == cmd_to_lines[m][1]
             d == cmd_to_lines[n][1]
         IN  /\ Get(seen_commands, c) \in rare_removals
             /\ FileLinesOf(c) = {}
             /\ Len(cmd_to_lines[n][2]) >= 2
             /\ Cardinality(FileLinesOf(d)) = 1

=============================================================================
